---- MODULE Spec2Model ----
(***************************************************************************)
(* NeuralTrade AI trading agent core (src/agent/main.py): the Risk Engine, *)
(* the Signal Generator and the Trading Orchestrator (run_strategy, the    *)
(* main loop of start, execute_trade, get_portfolio_status).               *)
(*                                                                         *)
(* Fixed-point units.  A market score s in [-1,1] is the integer 100*s, so *)
(* confidence = min(|s|*100, 95) is min(|score|, 95).  Risk scores are     *)
(* whole numbers of the 0..100 scale.  Position sizes and trade amounts    *)
(* are in hundredths of a currency unit, which makes                       *)
(* capital*0.02*(confidence/100)*((100-risk)/100) exact.                   *)
(***************************************************************************)
EXTENDS Integers, Sequences, FiniteSets, TLC

VARIABLES
    positions,            \* self.positions: token -> Position
    active_trades,        \* self.active_trades
    trade_history,        \* self.trade_history
    performance_metrics,  \* self.performance_metrics
    max_position_size,    \* self.risk_engine.max_position_size
    clock,                \* the reading of datetime.now()
    loop,                 \* the coroutine start(): its position and locals
    api                   \* the call the outer process is making, or its result

vars == <<positions, active_trades, trade_history, performance_metrics,
          max_position_size, clock, loop, api>>

----------------------------------------------------------------------------
(* Bounds of the model *)

MaxTrades == 2
MaxClock == 1

(* Inputs drawn by the orchestrator's actions: a SELL above both execution *)
(* thresholds, a HOLD, and the boundary values 70 and 75 of the thresholds *)
(* (75 lies in the interval (70,75] between them).                         *)
Scores == {-76, 0, 70, 75}
Risks == {50}

(* Inputs of the Signal Generator and Risk Engine taken on their own.      *)
ScoreDomain == -100 .. 100
RiskDomain == 20 .. 80
MaxPositionSizes == {50, 100, 10000}

----------------------------------------------------------------------------
(* Types of the program *)

StrategyType ==
    {"grid_trading", "dca", "momentum", "arbitrage", "lp_farming", "ai_predictive"}

SignalStrength ==
    [VERY_BEARISH |-> -2, BEARISH |-> -1, NEUTRAL |-> 0, BULLISH |-> 1,
     VERY_BULLISH |-> 2]

LoopTokens == <<"INJ", "ETH", "BTC", "USDT">>

ApiTokens == {"INJ"}

DefaultStrategy == "ai_predictive"

DefaultMaxPositionSize == 10000
ReferenceCapital == 10000
ReferenceConfidence == 70
ConfidenceCap == 95
StrategyThreshold == 70
LoopThreshold == 75
NotionalAmount == 1000

Abs(x) == IF x < 0 THEN -x ELSE x
Min(a, b) == IF a < b THEN a ELSE b

NoRisk == [none |-> "risk_assessment"]
NoSignal == [none |-> "signal"]
NoCall == [none |-> "call"]
NoResult == [none |-> "result"]

----------------------------------------------------------------------------
(* Risk Engine *)

calculate_position_size_unclamped(capital, confidence, risk_score, max_size) ==
    LET base_size == capital * 2
    IN  (base_size * confidence * (100 - risk_score)) \div 10000

calculate_position_size(capital, confidence, risk_score, max_size) ==
    LET base_size == capital * 2
        position_size == (base_size * confidence * (100 - risk_score)) \div 10000
    IN  Min(position_size, max_size * 100)

risk_level(risk_score) ==
    IF risk_score < 30 THEN "low" ELSE IF risk_score < 60 THEN "medium" ELSE "high"

assess_risk(token, amount, strategy, risk_score, max_size) ==
    [overall_risk_score |-> risk_score,
     risk_level |-> risk_level(risk_score),
     max_drawdown_risk |-> risk_score * 5,
     volatility_risk |-> risk_score * 3,
     liquidity_risk |-> risk_score * 2,
     recommended_position_size |->
         calculate_position_size(ReferenceCapital, ReferenceConfidence,
                                 risk_score, max_size),
     stop_loss |-> 0,
     take_profit |-> 0]

(* stop_loss_percentages.get(strategy, 0.10), in percent. *)
stop_loss_percentage(strategy) ==
    CASE strategy = "grid_trading" -> 10
      [] strategy = "dca" -> 50
      [] strategy = "momentum" -> 5
      [] strategy = "arbitrage" -> 1
      [] strategy = "lp_farming" -> 20
      [] strategy = "ai_predictive" -> 8
      [] OTHER -> 10

(* entry_price * (1 - sl_pct), in hundredths. *)
calculate_stop_loss(entry_price, strategy) ==
    entry_price * (100 - stop_loss_percentage(strategy))

----------------------------------------------------------------------------
(* Signal Generator *)

classify_action_wide_hold(overall_score) ==
    IF overall_score > 80 THEN "BUY"
    ELSE IF overall_score < -80 THEN "SELL"
    ELSE "HOLD"

classify_action_inclusive(overall_score) ==
    IF overall_score >= 50 THEN "BUY"
    ELSE IF overall_score <= -50 THEN "SELL"
    ELSE "HOLD"

classify_action(overall_score) ==
    IF overall_score > 50 THEN "BUY"
    ELSE IF overall_score < -50 THEN "SELL"
    ELSE "HOLD"

classify_strength(overall_score) ==
    IF overall_score > 50
    THEN (IF overall_score > 80 THEN SignalStrength.VERY_BULLISH
          ELSE SignalStrength.BULLISH)
    ELSE IF overall_score < -50
    THEN (IF overall_score < -80 THEN SignalStrength.VERY_BEARISH
          ELSE SignalStrength.BEARISH)
    ELSE SignalStrength.NEUTRAL

signal_confidence(overall_score) == Min(Abs(overall_score), ConfidenceCap)

generate_reasoning(token, action, market_score, risk_assessment) ==
    IF action = "BUY"
    THEN (IF market_score > 80 THEN <<"strong_bullish", risk_assessment.risk_level>>
          ELSE <<"moderate_buy">>)
    ELSE IF action = "SELL" THEN <<"bearish">>
    ELSE <<"mixed">>

generate_trading_signal(token, strategy, overall_score, risk_score, max_size, now) ==
    LET action == classify_action(overall_score)
        risk_assessment ==
            assess_risk(token, NotionalAmount, strategy, risk_score, max_size)
    IN  [timestamp |-> now,
         token |-> token,
         action |-> action,
         confidence |-> signal_confidence(overall_score),
         signal_strength |-> classify_strength(overall_score),
         reasoning |-> generate_reasoning(token, action, overall_score, risk_assessment),
         expected_return |-> Abs(overall_score) * 15,
         risk_score |-> risk_assessment.overall_risk_score,
         strategy |-> strategy,
         metadata |-> [market_score |-> overall_score,
                       risk_assessment |-> risk_assessment]]

----------------------------------------------------------------------------
(* Trading Orchestrator: construction *)

InitialMetrics ==
    [total_trades |-> 0, winning_trades |-> 0, losing_trades |-> 0,
     win_rate |-> 0, total_pnl |-> 0, sharpe_ratio |-> 0]

UnknownStrategy == "unknown"

ApiStrategies == {DefaultStrategy, UnknownStrategy}

TokenLists == {<<>>, <<"INJ">>, <<"INJ", "ETH">>}

ApiIdle ==
    [op |-> "none", state |-> "idle", strategy |-> "none", tokens |-> <<>>,
     idx |-> 0, signals |-> <<>>, failed |-> {}, call |-> NoCall,
     result |-> NoResult, seen |-> 0]

LoopInit ==
    [state |-> "NotStarted", idx |-> 0, signal |-> NoSignal, call |-> NoCall,
     last |-> "none"]

Init ==
    /\ positions = <<>>
    /\ active_trades = <<>>
    /\ trade_history = <<>>
    /\ performance_metrics = InitialMetrics
    /\ max_position_size = DefaultMaxPositionSize
    /\ clock = 0
    /\ loop = LoopInit
    /\ api = ApiIdle

----------------------------------------------------------------------------
(* Trading Orchestrator: execute_trade *)

(* f"trade_{datetime.now().timestamp()}": the prefix and the clock reading. *)
trade_id(now) == <<"trade_", now>>

trade_result(signal, amount, now) ==
    LET risk_assessment == signal.metadata.risk_assessment
        position_size ==
            IF risk_assessment # NoRisk
            THEN risk_assessment.recommended_position_size
            ELSE amount * 100
    IN  [trade_id |-> trade_id(now),
         token |-> signal.token,
         action |-> signal.action,
         amount |-> position_size,
         timestamp |-> now,
         status |-> "executed",
         tx_hash |-> "0x0"]

update_metrics_twice(metrics) ==
    [metrics EXCEPT !.total_trades = @ + 2]

update_metrics_counts_win(metrics) ==
    [metrics EXCEPT !.total_trades = @ + 1, !.winning_trades = @ + 1]

update_metrics(metrics) ==
    [metrics EXCEPT !.total_trades = @ + 1]

(* The state change of one successful execute_trade(signal, amount).  The  *)
(* history is capped at MaxTrades records.                                 *)
execute_trade(signal, amount) ==
    /\ Len(trade_history) < MaxTrades
    /\ trade_history' = Append(trade_history, trade_result(signal, amount, clock))
    /\ performance_metrics' = update_metrics(performance_metrics)

(* execute_trade raised before it recorded anything. *)
execute_trade_fails ==
    UNCHANGED <<trade_history, performance_metrics>>

Call(amount) == [amount |-> amount]

----------------------------------------------------------------------------
(* Trading Orchestrator: run_strategy *)

ShouldExecuteStrategy_AtLeast(signal) ==
    signal.confidence >= StrategyThreshold /\ signal.action # "HOLD"

ShouldExecuteStrategy(signal) ==
    signal.confidence > StrategyThreshold /\ signal.action # "HOLD"

LoopSuspended == loop.state # "Running"

RunStrategyCall(strategy, tokens) ==
    /\ api.state # "running"
    /\ LoopSuspended
    /\ api' = [ApiIdle EXCEPT !.op = "run_strategy",
                              !.state = IF strategy \in StrategyType
                                        THEN "running" ELSE "raised",
                              !.strategy = strategy,
                              !.tokens = tokens]
    /\ UNCHANGED <<positions, active_trades, trade_history, performance_metrics,
                   max_position_size, clock, loop>>

(* One pass of the for loop: the try block and its except clause. *)
RunStrategyToken ==
    /\ api.op = "run_strategy"
    /\ api.state = "running"
    /\ api.idx < Len(api.tokens)
    /\ LET i == api.idx + 1
           token == api.tokens[i]
       IN  \/ /\ api' = [api EXCEPT !.idx = i, !.failed = @ \cup {i},
                                    !.call = NoCall]
              /\ UNCHANGED <<trade_history, performance_metrics>>
           \/ \E s \in Scores, r \in Risks :
                LET signal == generate_trading_signal(token, api.strategy, s, r,
                                                      max_position_size, clock)
                    signals == Append(api.signals, signal)
                IN  IF ShouldExecuteStrategy(signal)
                    THEN \/ /\ execute_trade(signal, NotionalAmount)
                            /\ api' = [api EXCEPT !.idx = i, !.signals = signals,
                                                  !.call = Call(NotionalAmount)]
                         \/ /\ execute_trade_fails
                            /\ api' = [api EXCEPT !.idx = i, !.signals = signals,
                                                  !.failed = @ \cup {i},
                                                  !.call = Call(NotionalAmount)]
                    ELSE /\ api' = [api EXCEPT !.idx = i, !.signals = signals,
                                               !.call = NoCall]
                         /\ UNCHANGED <<trade_history, performance_metrics>>
    /\ UNCHANGED <<positions, active_trades, max_position_size, clock, loop>>

RunStrategyReturn ==
    /\ api.op = "run_strategy"
    /\ api.state = "running"
    /\ api.idx = Len(api.tokens)
    /\ api' = [api EXCEPT !.state = "returned", !.call = NoCall]
    /\ UNCHANGED <<positions, active_trades, trade_history, performance_metrics,
                   max_position_size, clock, loop>>

----------------------------------------------------------------------------
(* The other calls of the outer process *)

GenerateSignalCall(token, strategy, scores, risks) ==
    /\ api.state # "running"
    /\ LoopSuspended
    /\ IF strategy \in StrategyType
       THEN \E s \in scores, r \in risks :
                api' = [ApiIdle EXCEPT
                          !.op = "generate_trading_signal",
                          !.state = "returned",
                          !.strategy = strategy,
                          !.result = generate_trading_signal(
                                        token, strategy, s, r,
                                        max_position_size, clock)]
       ELSE api' = [ApiIdle EXCEPT !.op = "generate_trading_signal",
                                   !.state = "raised",
                                   !.strategy = strategy]
    /\ UNCHANGED <<positions, active_trades, trade_history, performance_metrics,
                   max_position_size, clock, loop>>

(* The outer process executes the signal it has just been given. *)
ExecuteTradeCall(amount) ==
    /\ api.op = "generate_trading_signal"
    /\ api.state = "returned"
    /\ LoopSuspended
    /\ \/ /\ execute_trade(api.result, amount)
          /\ api' = [ApiIdle EXCEPT
                       !.op = "execute_trade",
                       !.state = "returned",
                       !.call = Call(amount),
                       !.result = trade_result(api.result, amount, clock)]
       \/ /\ execute_trade_fails
          /\ api' = [ApiIdle EXCEPT !.op = "execute_trade",
                                    !.state = "raised",
                                    !.call = Call(amount)]
    /\ UNCHANGED <<positions, active_trades, max_position_size, clock, loop>>

(* dataclasses.asdict: the mapping of a Position's fields. *)
asdict(p) ==
    [token |-> p.token, amount |-> p.amount, entry_price |-> p.entry_price,
     current_price |-> p.current_price, pnl |-> p.pnl,
     pnl_percentage |-> p.pnl_percentage, timestamp |-> p.timestamp,
     is_active |-> p.is_active]

RECURSIVE SumAll(_, _)
SumAll(table, tokens) ==
    IF tokens = {} THEN 0
    ELSE LET k == CHOOSE t \in tokens : TRUE
         IN  table[k].amount * table[k].current_price
             + SumAll(table, tokens \ {k})

get_portfolio_status_all_positions(table, trades, metrics) ==
    [account_address |-> "account",
     positions |-> [k \in DOMAIN table |-> asdict(table[k])],
     active_trades |-> Len(trades),
     performance_metrics |-> metrics,
     total_value |-> SumAll(table, DOMAIN table)]

RECURSIVE SumActive(_, _)
SumActive(table, tokens) ==
    IF tokens = {} THEN 0
    ELSE LET k == CHOOSE t \in tokens : TRUE
             p == table[k]
         IN  (IF p.is_active THEN p.amount * p.current_price ELSE 0)
             + SumActive(table, tokens \ {k})

get_portfolio_status(table, trades, metrics) ==
    [account_address |-> "account",
     positions |-> [k \in DOMAIN table |-> asdict(table[k])],
     active_trades |-> Len(trades),
     performance_metrics |-> metrics,
     total_value |-> SumActive(table, DOMAIN table)]

PortfolioStatusCall ==
    /\ api.state # "running"
    /\ LoopSuspended
    /\ api' = [ApiIdle EXCEPT
                 !.op = "get_portfolio_status",
                 !.state = "returned",
                 !.result = get_portfolio_status(positions, active_trades,
                                                 performance_metrics),
                 !.seen = Len(trade_history)]
    /\ UNCHANGED <<positions, active_trades, trade_history, performance_metrics,
                   max_position_size, clock, loop>>

(* The outer process has taken the result of its call. *)
ApiReturn ==
    /\ api.state \in {"returned", "raised"}
    /\ api' = ApiIdle
    /\ UNCHANGED <<positions, active_trades, trade_history, performance_metrics,
                   max_position_size, clock, loop>>

Tick ==
    /\ clock < MaxClock
    /\ clock' = clock + 1
    /\ UNCHANGED <<positions, active_trades, trade_history, performance_metrics,
                   max_position_size, loop, api>>

----------------------------------------------------------------------------
(* Trading Orchestrator: the main loop of start() *)

ApiSuspended == api.op = "none"

ShouldExecuteLoop_StrategyThreshold(signal) ==
    signal.confidence > StrategyThreshold

ShouldExecuteLoop(signal) ==
    signal.confidence > LoopThreshold

handle_iteration_error_breaks(l) ==
    [LoopInit EXCEPT !.state = "Stopped", !.last = "error"]

(* except Exception: log the error, then sleep 60 seconds. *)
handle_iteration_error(l) ==
    [LoopInit EXCEPT !.state = "Backoff", !.last = "error"]

(* A stop request reaches the coroutine as KeyboardInterrupt (raised where *)
(* it is executing) or as CancelledError (task cancellation, raised at the *)
(* await it is suspended on).  Only KeyboardInterrupt raised inside the    *)
(* try block is caught by the shutdown clause; CancelledError is not an    *)
(* Exception, and the back-off sleep is outside the try block.             *)
handle_stop_request(l, kind) ==
    IF l.state \in {"Running", "Sleeping"} /\ kind = "KeyboardInterrupt"
    THEN [LoopInit EXCEPT !.state = "Stopped", !.last = "stop"]
    ELSE [LoopInit EXCEPT !.state = "Raised", !.last = "stop"]

Start ==
    /\ loop.state = "NotStarted"
    /\ ApiSuspended
    /\ loop' = [loop EXCEPT !.state = "Running", !.idx = 0, !.last = "start"]
    /\ UNCHANGED <<positions, active_trades, trade_history, performance_metrics,
                   max_position_size, clock, api>>

(* One pass of the for loop over the four tokens. *)
LoopToken ==
    /\ loop.state = "Running"
    /\ loop.idx < Len(LoopTokens)
    /\ LET i == loop.idx + 1
           token == LoopTokens[i]
       IN  \/ /\ loop' = handle_iteration_error(loop)
              /\ UNCHANGED <<trade_history, performance_metrics>>
           \/ \E s \in Scores, r \in Risks :
                LET signal == generate_trading_signal(token, DefaultStrategy, s, r,
                                                      max_position_size, clock)
                IN  IF ShouldExecuteLoop(signal)
                    THEN \/ /\ execute_trade(signal, NotionalAmount)
                            /\ loop' = [loop EXCEPT !.idx = i, !.signal = signal,
                                                    !.call = Call(NotionalAmount),
                                                    !.last = "token"]
                         \/ /\ execute_trade_fails
                            /\ loop' = handle_iteration_error(loop)
                    ELSE /\ loop' = [loop EXCEPT !.idx = i, !.signal = signal,
                                                 !.call = NoCall,
                                                 !.last = "token"]
                         /\ UNCHANGED <<trade_history, performance_metrics>>
    /\ UNCHANGED <<positions, active_trades, max_position_size, clock, api>>

(* await asyncio.sleep(300) *)
LoopSleep ==
    /\ loop.state = "Running"
    /\ loop.idx = Len(LoopTokens)
    /\ loop' = [LoopInit EXCEPT !.state = "Sleeping", !.last = "sleep"]
    /\ UNCHANGED <<positions, active_trades, trade_history, performance_metrics,
                   max_position_size, clock, api>>

LoopWake ==
    /\ loop.state = "Sleeping"
    /\ ApiSuspended
    /\ loop' = [loop EXCEPT !.state = "Running", !.idx = 0, !.last = "wake"]
    /\ UNCHANGED <<positions, active_trades, trade_history, performance_metrics,
                   max_position_size, clock, api>>

(* The 60 second sleep of the except clause is over: while True goes round. *)
LoopRetry ==
    /\ loop.state = "Backoff"
    /\ ApiSuspended
    /\ loop' = [loop EXCEPT !.state = "Running", !.idx = 0, !.last = "retry"]
    /\ UNCHANGED <<positions, active_trades, trade_history, performance_metrics,
                   max_position_size, clock, api>>

StopKinds == {"KeyboardInterrupt", "CancelledError"}

LoopStop(kind) ==
    /\ loop.state \in {"Running", "Sleeping", "Backoff"}
    /\ loop.state = "Running" => kind = "KeyboardInterrupt"
    /\ loop' = handle_stop_request(loop, kind)
    /\ UNCHANGED <<positions, active_trades, trade_history, performance_metrics,
                   max_position_size, clock, api>>

----------------------------------------------------------------------------
(* Specifications *)

Next ==
    \/ \E strategy \in ApiStrategies, tokens \in TokenLists :
           RunStrategyCall(strategy, tokens)
    \/ RunStrategyToken
    \/ RunStrategyReturn
    \/ \E token \in ApiTokens, strategy \in ApiStrategies :
           GenerateSignalCall(token, strategy, Scores, Risks)
    \/ ExecuteTradeCall(NotionalAmount)
    \/ PortfolioStatusCall
    \/ ApiReturn
    \/ Tick
    \/ Start
    \/ LoopToken
    \/ LoopSleep
    \/ LoopWake
    \/ LoopRetry
    \/ \E kind \in StopKinds : LoopStop(kind)

Spec == Init /\ [][Next]_vars

(* run_strategy calls interleaved with the main loop: the two paths that   *)
(* execute a signal after looking at its confidence.                       *)
NextTrading ==
    \/ \E strategy \in ApiStrategies, tokens \in TokenLists :
           RunStrategyCall(strategy, tokens)
    \/ RunStrategyToken
    \/ RunStrategyReturn
    \/ ApiReturn
    \/ Tick
    \/ Start
    \/ LoopToken
    \/ LoopSleep
    \/ LoopWake
    \/ LoopRetry
    \/ \E kind \in StopKinds : LoopStop(kind)

SpecTrading == Init /\ [][NextTrading]_vars

(* The main loop on its own.  asyncio.sleep(60) returns once the event     *)
(* loop has run for 60 seconds, so the step out of Backoff is weakly fair. *)
NextLoop ==
    \/ Start
    \/ LoopToken
    \/ LoopSleep
    \/ LoopWake
    \/ LoopRetry
    \/ \E kind \in StopKinds : LoopStop(kind)
    \/ Tick

SpecLoop == Init /\ [][NextLoop]_vars /\ WF_vars(LoopRetry)

(* The Signal Generator and the Risk Engine on their whole input domain:   *)
(* every market score, every risk score, and a Risk Engine constructed     *)
(* with any of several position limits (RiskEngine.__init__ takes the      *)
(* limit as an argument).                                                  *)
InitSignal ==
    /\ positions = <<>>
    /\ active_trades = <<>>
    /\ trade_history = <<>>
    /\ performance_metrics = InitialMetrics
    /\ max_position_size \in MaxPositionSizes
    /\ clock = 0
    /\ loop = LoopInit
    /\ api = ApiIdle

NextSignal ==
    \/ /\ api = ApiIdle
       /\ \E token \in ApiTokens, strategy \in ApiStrategies :
              GenerateSignalCall(token, strategy, ScoreDomain, RiskDomain)
    \/ ApiReturn
    \/ Tick

SpecSignal == InitSignal /\ [][NextSignal]_vars

(* The Risk Engine called directly, with valid and invalid arguments.      *)
(* assess_risk reads neither its amount nor its strategy; the stop-loss    *)
(* lookup falls back to 10% for a strategy that is not in its table.       *)
InputAmounts == {-1000, 1000}

EntryPrices == {100}

AssessRiskCall(token, amount, strategy, risks) ==
    /\ api = ApiIdle
    /\ \E r \in risks :
           api' = [ApiIdle EXCEPT
                     !.op = "assess_risk",
                     !.state = "returned",
                     !.strategy = strategy,
                     !.call = Call(amount),
                     !.result = assess_risk(token, amount, strategy, r,
                                            max_position_size)]
    /\ UNCHANGED <<positions, active_trades, trade_history, performance_metrics,
                   max_position_size, clock, loop>>

CalculateStopLossCall(entry_price, strategy) ==
    /\ api = ApiIdle
    /\ api' = [ApiIdle EXCEPT
                 !.op = "calculate_stop_loss",
                 !.state = "returned",
                 !.strategy = strategy,
                 !.call = Call(entry_price),
                 !.result = [stop_loss |->
                                calculate_stop_loss(entry_price, strategy)]]
    /\ UNCHANGED <<positions, active_trades, trade_history, performance_metrics,
                   max_position_size, clock, loop>>

NextRisk ==
    \/ \E token \in ApiTokens, amount \in InputAmounts,
          strategy \in StrategyType \cup {UnknownStrategy} :
           AssessRiskCall(token, amount, strategy, RiskDomain)
    \/ \E entry_price \in EntryPrices,
          strategy \in StrategyType \cup {UnknownStrategy} :
           CalculateStopLossCall(entry_price, strategy)
    \/ /\ api = ApiIdle
       /\ \E token \in ApiTokens, strategy \in ApiStrategies :
              GenerateSignalCall(token, strategy, Scores, Risks)
    \/ ApiReturn

SpecRisk == InitSignal /\ [][NextRisk]_vars

(* The portfolio read over position tables held by the orchestrator.       *)
PositionTokens == {"INJ", "ETH"}

PositionsOf(token) ==
    [token : {token}, amount : {1, 2}, entry_price : {1}, current_price : {3, 5},
     pnl : {0}, pnl_percentage : {0}, timestamp : {0}, is_active : BOOLEAN]

PositionTables ==
    UNION {{table \in [held -> UNION {PositionsOf(k) : k \in held}] :
                \A k \in held : table[k].token = k} :
           held \in SUBSET PositionTokens}

InitPortfolio ==
    /\ positions \in PositionTables
    /\ active_trades = <<>>
    /\ trade_history = <<>>
    /\ performance_metrics = InitialMetrics
    /\ max_position_size = DefaultMaxPositionSize
    /\ clock = 0
    /\ loop = LoopInit
    /\ api = ApiIdle

NextPortfolio ==
    \/ PortfolioStatusCall
    \/ \E token \in ApiTokens :
           GenerateSignalCall(token, DefaultStrategy, Scores, Risks)
    \/ ExecuteTradeCall(NotionalAmount)
    \/ ApiReturn

SpecPortfolio == InitPortfolio /\ [][NextPortfolio]_vars

----------------------------------------------------------------------------
(* Properties *)

Terminated == {"Stopped", "Raised"}

Last(seq) == seq[Len(seq)]

(* C1: run_strategy isolates per-token failures.  Called with a valid      *)
(* strategy it never raises, it processes every token, and a token whose   *)
(* processing failed (in generate_trading_signal or in the execute_trade   *)
(* that follows) has no signal in the returned list, while every other     *)
(* token has one.                                                          *)
C1_FailedTokenContributesNoSignal ==
    (api.op = "run_strategy" /\ api.strategy \in StrategyType) =>
        /\ api.state # "raised"
        /\ api.state = "returned" =>
              /\ api.idx = Len(api.tokens)
              /\ Len(api.signals) + Cardinality(api.failed) = Len(api.tokens)
              /\ \A i \in api.failed :
                     \A k \in 1 .. Len(api.signals) :
                         api.signals[k].token # api.tokens[i]

(* C2: an error raised by an iteration of the main loop moves the loop     *)
(* from Running to Backoff; the loop leaves Backoff only for a new         *)
(* iteration (Running, first token) unless a stop request arrives; the     *)
(* loop terminates on a stop request only, never on an iteration error;    *)
(* and a loop in Backoff does begin a new iteration unless it is stopped.  *)
C2_ErrorBacksOffThenRetries ==
    /\ [][ /\ (loop'.last = "error" /\ loop' # loop) =>
                  (loop.state = "Running" /\ loop'.state = "Backoff")
           /\ (loop.state = "Backoff" /\ loop' # loop) =>
                  \/ loop'.state = "Running" /\ loop'.idx = 0
                  \/ loop'.last = "stop"
           /\ (loop'.state \in Terminated /\ loop.state \notin Terminated) =>
                  loop'.last = "stop" ]_vars
    /\ (loop.state = "Backoff") ~>
           (loop.state = "Running" \/ loop.last = "stop")

C2_Witness ==
    loop.state = "Running" /\ loop.last = "retry"

(* C3: a stop request delivered to the main loop in any of its states      *)
(* (mid-iteration, the interval sleep, the error back-off) ends the loop   *)
(* in the Stopped state, reached through the shutdown clause.              *)
C3_StopReachesShutdown ==
    loop.last = "stop" => loop.state = "Stopped"

(* C4: a pass of run_strategy that generated a signal calls execute_trade  *)
(* exactly when the signal's confidence is above 70 and its action is not  *)
(* HOLD, always with the amount 1000; without the call the trade history   *)
(* and total_trades are unchanged.                                         *)
C4_StrategyExecutesAbove70 ==
    [][ (/\ api.op = "run_strategy"
         /\ api'.op = "run_strategy"
         /\ Len(api'.signals) = Len(api.signals) + 1) =>
            LET signal == Last(api'.signals)
                called == api'.call # NoCall
            IN  /\ called <=> (signal.confidence > 70 /\ signal.action # "HOLD")
                /\ called => api'.call.amount = 1000
                /\ ~called =>
                       /\ trade_history' = trade_history
                       /\ performance_metrics'.total_trades =
                              performance_metrics.total_trades ]_vars

C4_Witness ==
    /\ api.op = "run_strategy"
    /\ api.state = "running"
    /\ api.call = Call(1000)
    /\ api.idx \notin api.failed
    /\ Len(trade_history) > 0
    /\ Last(api.signals).confidence > 70
    /\ Last(trade_history).token = Last(api.signals).token

(* C5: a pass of the main loop that generated a signal calls execute_trade *)
(* exactly when the signal's confidence is above 75; a signal with         *)
(* confidence in (70,75] is executed by run_strategy and not by the loop.  *)
C5_LoopExecutesAbove75 ==
    [][ /\ (loop'.signal # NoSignal /\ loop'.signal # loop.signal) =>
               /\ (loop'.call # NoCall) <=> (loop'.signal.confidence > 75)
               /\ loop'.signal.confidence \in 71 .. 75 =>
                      /\ loop'.call = NoCall
                      /\ trade_history' = trade_history
        /\ (/\ api.op = "run_strategy"
            /\ api'.op = "run_strategy"
            /\ Len(api'.signals) = Len(api.signals) + 1
            /\ Last(api'.signals).confidence \in 71 .. 75) =>
               api'.call # NoCall ]_vars

C5_Witness ==
    /\ loop.state = "Running"
    /\ loop.signal # NoSignal
    /\ loop.signal.confidence = 75
    /\ loop.signal.action = "BUY"
    /\ loop.call = NoCall

(* C6: total_trades equals the number of records in the trade history, and *)
(* every record has status "executed".                                     *)
C6_TotalTradesCountsHistory ==
    /\ performance_metrics.total_trades = Len(trade_history)
    /\ \A k \in 1 .. Len(trade_history) : trade_history[k].status = "executed"

C6_Witness ==
    /\ Len(trade_history) = 2
    /\ performance_metrics.total_trades = 2

(* C8: win_rate equals winning_trades / total_trades, and is 0 when        *)
(* total_trades is 0.                                                      *)
C8_WinRateIsRatio ==
    /\ performance_metrics.total_trades = 0 => performance_metrics.win_rate = 0
    /\ performance_metrics.total_trades > 0 =>
           performance_metrics.win_rate * performance_metrics.total_trades
               = performance_metrics.winning_trades

C8_Witness ==
    /\ performance_metrics.total_trades > 0
    /\ Len(trade_history) > 0

(* C7: every signal of generate_trading_signal with action BUY or SELL    *)
(* carries a risk assessment in its metadata whose                         *)
(* recommended_position_size is at most the Risk Engine's                  *)
(* max_position_size (sizes are in hundredths).                            *)
C7_SignalCarriesBoundedSize ==
    (/\ api.op = "generate_trading_signal"
     /\ api.state = "returned"
     /\ api.result.action \in {"BUY", "SELL"}) =>
        /\ api.result.metadata.risk_assessment # NoRisk
        /\ api.result.metadata.risk_assessment.recommended_position_size
               <= max_position_size * 100

C7_Witness ==
    /\ api.op = "generate_trading_signal"
    /\ api.state = "returned"
    /\ api.result.action = "SELL"
    /\ max_position_size = 50
    /\ api.result.risk_score = 20
    /\ api.result.metadata.risk_assessment.recommended_position_size = 5000

(* C9: the classification of a market score s (in hundredths) uses strict  *)
(* inequalities: s > 0.5 is BUY, VERY_BULLISH iff s > 0.8 and BULLISH      *)
(* otherwise; s < -0.5 is SELL, VERY_BEARISH iff s < -0.8 and BEARISH      *)
(* otherwise; anything else is HOLD and NEUTRAL; the action is HOLD        *)
(* exactly when the strength is NEUTRAL.                                   *)
C9_StrictClassification ==
    (api.op = "generate_trading_signal" /\ api.state = "returned") =>
        LET s == api.result.metadata.market_score
            action == api.result.action
            strength == api.result.signal_strength
        IN  /\ s > 50 => action = "BUY" /\ strength = (IF s > 80 THEN 2 ELSE 1)
            /\ s < -50 => action = "SELL" /\ strength = (IF s < -80 THEN -2 ELSE -1)
            /\ (s >= -50 /\ s <= 50) => action = "HOLD" /\ strength = 0
            /\ (action = "HOLD") <=> (strength = 0)

C9_Witness ==
    /\ api.op = "generate_trading_signal"
    /\ api.state = "returned"
    /\ api.result.metadata.market_score = 50
    /\ api.result.action = "HOLD"

(* C10: get_portfolio_status changes nothing of the orchestrator's state;  *)
(* its output is the projection of that state, with total_value the sum of *)
(* amount * current_price over the positions whose is_active is set; and a *)
(* second call with no trade since the first returns the same output.      *)
ActiveValue(token) ==
    IF token \in DOMAIN positions /\ positions[token].is_active
    THEN positions[token].amount * positions[token].current_price
    ELSE 0

C10_StatusIsPureRead ==
    [][ api'.op = "get_portfolio_status" =>
            /\ UNCHANGED <<positions, active_trades, trade_history,
                           performance_metrics>>
            /\ api'.result.total_value = ActiveValue("INJ") + ActiveValue("ETH")
            /\ api'.result.performance_metrics = performance_metrics
            /\ api'.result.active_trades = Len(active_trades)
            /\ DOMAIN api'.result.positions = DOMAIN positions
            /\ (api.op = "get_portfolio_status" /\ api.seen = Len(trade_history)) =>
                   api'.result = api.result ]_vars

C10_Witness ==
    /\ api.op = "get_portfolio_status"
    /\ DOMAIN positions = {"INJ", "ETH"}
    /\ positions["INJ"].is_active
    /\ ~positions["ETH"].is_active
    /\ api.result.total_value = positions["INJ"].amount * positions["INJ"].current_price
    /\ performance_metrics.total_trades > 0

(* C11: no two records of the trade history share a trade_id, also when   *)
(* two executions read the same value of the clock.                        *)
C11_TradeIdsUnique ==
    \A i, j \in 1 .. Len(trade_history) :
        i # j => trade_history[i].trade_id # trade_history[j].trade_id

(* C12: invalid input fails fast.  assess_risk called with a negative     *)
(* amount or a strategy that is no StrategyType raises instead of          *)
(* returning an assessment, generate_trading_signal called with such a     *)
(* strategy raises instead of returning a signal, and only the stop-loss   *)
(* lookup answers an unknown strategy, with the 10% default.               *)
C12_InvalidInputFailsFast ==
    /\ (/\ api.op = "assess_risk"
        /\ (api.call.amount < 0 \/ api.strategy \notin StrategyType)) =>
           api.state = "raised"
    /\ (/\ api.op = "generate_trading_signal"
        /\ api.strategy \notin StrategyType) =>
           api.state = "raised"
    /\ (/\ api.op = "calculate_stop_loss"
        /\ api.strategy \notin StrategyType) =>
           /\ api.state = "returned"
           /\ api.result.stop_loss = api.call.amount * 90

(* C13: after any interleaving of run_strategy calls and main-loop        *)
(* iterations every record of the trade history has action BUY or SELL.    *)
(* The main loop looks at the confidence alone, and a confidence above 75  *)
(* is never the confidence of a HOLD signal.                               *)
C13_NoHoldExecuted ==
    /\ \A k \in 1 .. Len(trade_history) :
           trade_history[k].action \in {"BUY", "SELL"}
    /\ \A s \in ScoreDomain :
           signal_confidence(s) > LoopThreshold => classify_action(s) # "HOLD"

(* The main loop has just executed a SELL signal on the confidence check   *)
(* alone, after run_strategy had executed a BUY signal.                    *)
C13_Witness ==
    /\ loop.state = "Running"
    /\ loop.call = Call(NotionalAmount)
    /\ Len(trade_history) = 2
    /\ trade_history[1].action = "BUY"
    /\ trade_history[2].action = "SELL"
    /\ trade_history[2].token = loop.signal.token
    /\ loop.signal.token = "BTC"

====
